---- MODULE Spec2Model ----
(***************************************************************************)
(* The Kinesis consumer engine of forex-champion (back_end/src/kinesis.py) *)
(* with its two subclasses, ForexConsumerProcessed (consumer_process.py)   *)
(* and ForexConsumerRaw (consumer_raw.py), the stream they read and the S3 *)
(* bucket they write.                                                      *)
(*                                                                         *)
(* One consumer process is modelled: main() constructs the consumer and    *)
(* calls run(); when an exception leaves run() the process is dead and an  *)
(* outside supervisor may start main() again.  The stream (Kinesis) and    *)
(* the bucket (S3) are the environment.                                    *)
(***************************************************************************)
EXTENDS Integers, Sequences, FiniteSets, TLC

VARIABLES
    stream,            \* the shard: the records published so far, in order
    nextIterator,      \* Kinesis: serial number of the next iterator it issues
    kind,              \* which main() runs: "processed" or "raw"
    instance,          \* how many times the consumer has been constructed
    shard_iterator,    \* self.shard_iterator
    pc,                \* where run()/pull() stands
    output,            \* output['Records'] of the current pull
    idx,               \* position of pull()'s for loop in output['Records']
    processed_records, \* run()'s local list
    store,             \* self.bucket: key -> content (a sequence of rows)
    now,               \* wall clock, whole seconds (time.time())
    ticks,             \* seconds elapsed outside the sleeps
    error,             \* the exception that left run(), "none" while it runs
    begin_read,        \* self.begin_read
    \* the producer process (producer.py)
    ppc,               \* where KinesisProducer.run()/ForexProducer.pull() stands
    exchange_data,     \* the list multi_pool.map returned
    pidx,              \* position of pull()'s for loop in exchange_data
    cycle,             \* rounds of run()'s while loop started so far
    perror,            \* the exception that left the producer's run()
    \* history, read by the properties only
    usedIterator,      \* the iterator handed to the latest get_records
    usedIds,           \* serials of the iterators of this instance's successful pulls
    lastOutcome,       \* "none", "ok" or "throttled": the latest get_records
    lastSleep,         \* argument of the latest time.sleep since then, 0 if none
    sendsThisPull,     \* send_records calls since the latest get_records
    lastSent,          \* the argument of the latest send_records call
    batchSrc,          \* SequenceNumbers the entries of processed_records come from
    processCalls,      \* SequenceNumbers of the records given to process_record
    openedAt,          \* length of the stream when this instance was constructed
    pulled,            \* SequenceNumbers get_records returned to this instance
    failedPull,        \* SequenceNumbers of the pull whose sink write ended the previous run
    storeSrc,          \* key -> SequenceNumbers the rows of the object come from
    fetched,           \* producer: currency -> outcome of its fetch in this round
    puts,              \* producer: currencies whose payload was put in this round
    other,             \* the fields of a second consumer process while this one runs
    writer,            \* writer -> where its send_record call stands, and its locals
    written            \* the records whose send_record call has returned, in that order

vars == <<stream, nextIterator, kind, instance, shard_iterator, pc, output, idx,
          processed_records, store, now, ticks, error, usedIterator, usedIds,
          lastOutcome, lastSleep, sendsThisPull, lastSent, batchSrc,
          processCalls, openedAt, pulled, failedPull, begin_read, storeSrc,
          ppc, exchange_data, pidx, cycle, perror, fetched, puts, other,
          writer, written>>

prodVars == <<ppc, exchange_data, pidx, cycle, perror, fetched, puts>>

(***************************************************************************)
(* Bounds of the model.                                                    *)
(***************************************************************************)
MaxStream == 2      \* records published in one behaviour
MaxInstances == 2   \* constructions of the consumer (one restart)
MaxIterators == 4   \* shard iterators Kinesis issues in one behaviour
MaxTicks == 1       \* seconds that pass outside time.sleep

(***************************************************************************)
(* Program constants.                                                      *)
(***************************************************************************)
SLEEP_PERIOD == 60
RECORD_LIMIT == 11
BACKOFF == 30
DAY_SECONDS == 86400
\* the host's local time zone, seconds east of UTC: the module's docstring
\* names Pacific Time (standard time, UTC-8)
TZ_OFFSET == -28800

Min(a, b) == IF a < b THEN a ELSE b

(***************************************************************************)
(* Values.  A Python str is a sequence of one-character strings, so that   *)
(* slices are computed.  A JSON number is a float, kept as an exact        *)
(* fraction num/den; a JSON string that holds a number keeps type "str".   *)
(* A timestamp is the digit string of sec * 10^6 + usec, usec < 10^6.      *)
(***************************************************************************)
Float(n, d) == [type |-> "float", num |-> n, den |-> d]
UnixTime(s, u) == [sec |-> s, usec |-> u]

USD_CAD == <<"U", "S", "D", "_", "C", "A", "D">>
EUR_USD == <<"E", "U", "R", "_", "U", "S", "D">>
USD == <<"U", "S", "D">>

Quote(name, t, b, a) == [instrument |-> name, time |-> t, bid |-> b, ask |-> a]

\* record['Data']: text that json.loads rejects, a JSON object without the
\* 'prices' key, or a JSON object with a 'prices' list
Unparseable == [parses |-> FALSE, hasPrices |-> FALSE, prices |-> <<>>]
NoPrices == [parses |-> TRUE, hasPrices |-> FALSE, prices |-> <<>>]
Prices(list) == [parses |-> TRUE, hasPrices |-> TRUE, prices |-> list]

Payloads ==
    { Unparseable,
      NoPrices,
      Prices(<<>>),
      Prices(<<Quote(USD_CAD, UnixTime(30, 0), Float(4, 3), Float(3, 2))>>),
      Prices(<<Quote(EUR_USD, UnixTime(DAY_SECONDS + 90, 5), Float(5, 4), Float(4, 3))>>) }

Kinds == {"processed", "raw"}

\* a call's outcome: a returned value, or a raised exception
Return(v) == [exc |-> "none", val |-> v]
Raise(e) == [exc |-> e, val |-> FALSE]

(***************************************************************************)
(* Python slices s[:n] and s[n:].                                          *)
(***************************************************************************)
SliceTo(s, n) == SubSeq(s, 1, Min(n, Len(s)))
SliceFrom(s, n) == SubSeq(s, n + 1, Len(s))

\* json.loads(text)
JsonLoads(data) == IF data.parses THEN Return(data) ELSE Raise("ValueError")

\* json.loads(record['Data'])['prices'][0]
FirstPrice(record) ==
    LET doc == JsonLoads(record.Data)
    IN  IF doc.exc # "none" THEN doc
        ELSE IF ~doc.val.hasPrices THEN Raise("KeyError")
        ELSE IF Len(doc.val.prices) = 0 THEN Raise("IndexError")
        ELSE Return(doc.val.prices[1])

\* 1 / x
Inverse(x) ==
    IF x.type # "float" THEN Raise("TypeError")
    ELSE IF x.num = 0 THEN Raise("ZeroDivisionError")
    ELSE Return(Float(x.den, x.num))

(***************************************************************************)
(* ForexConsumerProcessed and ForexConsumerRaw: the overridden methods.    *)
(***************************************************************************)
\* a validity check that lets a record without 'prices' through (the base
\* class's default, return True, for that case)
Processed_check_record_validity_Lenient(record) ==
    LET p == FirstPrice(record)
    IN  IF p.exc = "none" THEN Return(TRUE)
        ELSE IF p.exc = "KeyError" THEN Return(TRUE)
        ELSE Raise(p.exc)

\* try: json.loads(record['Data'])['prices'][0]; return True
\* except KeyError: return False
Processed_check_record_validity(record) ==
    LET p == FirstPrice(record)
    IN  IF p.exc = "none" THEN Return(TRUE)
        ELSE IF p.exc = "KeyError" THEN Return(FALSE)
        ELSE Raise(p.exc)

Raw_check_record_validity(record) ==
    LET p == FirstPrice(record)
    IN  IF p.exc = "none" THEN Return(TRUE)
        ELSE IF p.exc = "KeyError" THEN Return(FALSE)
        ELSE Raise(p.exc)

\* a transform that takes the symbol after the separator but forgets to
\* invert the prices
Processed_process_record_NoInverse(record) ==
    LET p == FirstPrice(record)
    IN  IF p.exc # "none" THEN p
        ELSE LET name == p.val.instrument
             IN  IF SliceTo(name, 3) = USD
                 THEN Return(<<SliceFrom(name, 4), p.val.time, p.val.bid, p.val.ask>>)
                 ELSE Return(<<SliceTo(name, 3), p.val.time, p.val.bid, p.val.ask>>)

\* returns the tuple (ticker_name, rate_time, bid, ask)
Processed_process_record(record) ==
    LET p == FirstPrice(record)
    IN  IF p.exc # "none" THEN p
        ELSE LET name == p.val.instrument
                 rate_time == p.val.time
                 bid == p.val.bid
                 ask == p.val.ask
             IN  IF SliceTo(name, 3) = USD
                 THEN LET b == Inverse(bid)
                          a == Inverse(ask)
                      IN  IF b.exc # "none" THEN b
                          ELSE IF a.exc # "none" THEN a
                          ELSE Return(<<SliceFrom(name, 4), rate_time, b.val, a.val>>)
                 ELSE Return(<<SliceTo(name, 3), rate_time, bid, ask>>)

\* json.dumps(record): the text of the whole Kinesis record
JsonDumps(x) == [dumps |-> x]

Raw_process_record(record) == Return(JsonDumps(record))

\* int(int(UNIX_time) / 1000000): the digit string holds sec * 10^6 + usec
ToSeconds(UNIX_time) == UNIX_time.sec

\* the local day a timestamp falls on, counted from 1970-01-01, and the
\* second of that day
LocalDay(s) == (s + TZ_OFFSET) \div DAY_SECONDS
SecondOfDay(s) == (s + TZ_OFFSET) % DAY_SECONDS

\* the proleptic Gregorian date of a day counted from 1970-01-01, as
\* datetime computes it
CivilFromDays(days) ==
    LET z == days + 719468
        era == z \div 146097
        doe == z - era * 146097
        yoe == (doe - doe \div 1460 + doe \div 36524 - doe \div 146096) \div 365
        doy == doe - (365 * yoe + yoe \div 4 - yoe \div 100)
        mp == (5 * doy + 2) \div 153
        d == doy - (153 * mp + 2) \div 5 + 1
        m == IF mp < 10 THEN mp + 3 ELSE mp - 9
        y == yoe + era * 400 + (IF m <= 2 THEN 1 ELSE 0)
    IN  [year |-> y, month |-> m, day |-> d]

\* datetime.fromtimestamp(s).strftime("%Y-%m-%d %H:%M")
RecordTime(s) ==
    LET date == CivilFromDays(LocalDay(s))
    IN  [year |-> date.year, month |-> date.month, day |-> date.day,
         hour |-> SecondOfDay(s) \div 3600, minute |-> (SecondOfDay(s) % 3600) \div 60]

\* a variant of the key that leaves the day out
KeyPath_NoDay(processed_record) ==
    LET record_time == RecordTime(ToSeconds(processed_record[2]))
    IN  <<processed_record[1], record_time.year, record_time.month, 1,
          "TODAYS-DATA.csv">>

\* "{}/{}/{}/{}/TODAYS-DATA.csv".format(instrument_name, *time_list)
KeyPath(processed_record) ==
    LET record_time == RecordTime(ToSeconds(processed_record[2]))
    IN  <<processed_record[1], record_time.year, record_time.month,
          record_time.day, "TODAYS-DATA.csv">>

\* "{},{},{},{}\n".format(*instrument_data_list)
CsvRow(processed_record) ==
    <<processed_record[1], RecordTime(ToSeconds(processed_record[2])),
      processed_record[3], processed_record[4]>>

\* a send_record that writes the row over whatever the object held
Processed_send_record_Overwrite(bucket, processed_record) ==
    LET key_path == KeyPath(processed_record)
        instrument_data == CsvRow(processed_record)
    IN  (key_path :> <<instrument_data>>) @@ bucket

\* a send_record that puts the row in front of what the object held
Processed_send_record_Prepend(bucket, processed_record) ==
    LET key_path == KeyPath(processed_record)
        instrument_data == CsvRow(processed_record)
    IN  IF key_path \in DOMAIN bucket
        THEN [bucket EXCEPT ![key_path] = <<instrument_data>> \o @]
        ELSE (key_path :> <<instrument_data>>) @@ bucket

\* get_key; then get_contents_as_string, += , set_contents_from_string,
\* or new_key and set_contents_from_string
Processed_send_record(bucket, processed_record) ==
    LET key_path == KeyPath(processed_record)
        instrument_data == CsvRow(processed_record)
    IN  IF key_path \in DOMAIN bucket
        THEN [bucket EXCEPT ![key_path] = Append(@, instrument_data)]
        ELSE (key_path :> <<instrument_data>>) @@ bucket

\* for record in processed_records: self.send_record(record), the first n calls
RECURSIVE SendFirst(_, _, _)
SendFirst(bucket, batch, n) ==
    IF n = 0 THEN bucket
    ELSE Processed_send_record(SendFirst(bucket, batch, n - 1), batch[n])

Processed_send_records(bucket, batch) == SendFirst(bucket, batch, Len(batch))

\* "{}/{}/{}/FOREX-RAW-DATA-{UNIX_TIME}": the wall clock's local date and
\* its whole second
RawKey(t) ==
    LET date == CivilFromDays(LocalDay(t))
    IN  <<date.year, date.month, date.day, "FOREX-RAW-DATA", t>>

Raw_send_records(bucket, batch, t) ==
    LET new_key_name == RawKey(t)
    IN  IF new_key_name \in DOMAIN bucket
        THEN [bucket EXCEPT ![new_key_name] = batch]
        ELSE (new_key_name :> batch) @@ bucket

\* the SequenceNumbers behind the rows: what the first n writes of a
\* send_records call add to each object, src[i] being the source of batch[i]
RECURSIVE SendFirstSrc(_, _, _, _)
SendFirstSrc(srcs, batch, src, n) ==
    IF n = 0 THEN srcs
    ELSE LET before == SendFirstSrc(srcs, batch, src, n - 1)
             key_path == KeyPath(batch[n])
         IN  IF key_path \in DOMAIN before
             THEN [before EXCEPT ![key_path] = Append(@, src[n])]
             ELSE (key_path :> <<src[n]>>) @@ before

send_records_src(k, srcs, batch, src, t, n) ==
    IF k = "processed" THEN SendFirstSrc(srcs, batch, src, n)
    ELSE IF n = 0 THEN srcs
    ELSE IF RawKey(t) \in DOMAIN srcs THEN [srcs EXCEPT ![RawKey(t)] = src]
    ELSE (RawKey(t) :> src) @@ srcs

\* the writes a send_records call makes when nothing fails
Writes(k, batch) == IF k = "processed" THEN Len(batch) ELSE 1

\* dispatch on the class of the instance
check_record_validity(k, record) ==
    IF k = "processed" THEN Processed_check_record_validity(record)
    ELSE Raw_check_record_validity(record)

process_record(k, record) ==
    IF k = "processed" THEN Processed_process_record(record)
    ELSE Raw_process_record(record)

send_records(k, bucket, batch, t) ==
    IF k = "processed" THEN Processed_send_records(bucket, batch)
    ELSE Raw_send_records(bucket, batch, t)

\* the bucket after a send_records call whose j-th S3 request sequence fails:
\* what the calls before it wrote stays written
send_records_failing(k, bucket, batch, j) ==
    IF k = "processed" THEN SendFirst(bucket, batch, j - 1) ELSE bucket

\* how many places a send_records call can fail at
FailPoints(k, batch) == IF k = "processed" THEN 1..Len(batch) ELSE {1}

(***************************************************************************)
(* Kinesis: an iterator is an opaque token; the service issues a new one   *)
(* with every get_shard_iterator and every get_records, and knows the      *)
(* position in the shard each stands for.                                  *)
(***************************************************************************)
Iterator(serial, position) == [id |-> serial, pos |-> position]

\* an iterator opened at the oldest record of the shard instead
TrimHorizonIterator == Iterator(nextIterator, 0)

\* an iterator opened where the cursor of the previous instance stood
CheckpointIterator == Iterator(nextIterator, shard_iterator.pos)

\* get_shard_iterator(stream_name, shard_id, "LATEST")["ShardIterator"]:
\* just after the most recent record of the shard
LatestIterator == Iterator(nextIterator, Len(stream))

\* the records a get_records call can return: the next n of the shard
Available == Len(stream) - shard_iterator.pos

SeqNums(records) == {records[i].SequenceNumber : i \in DOMAIN records}

(***************************************************************************)
(* KinesisConsumer.pull: the except clause of its try statement.  The name *)
(* ProvisionedThroughputExceededException is bound nowhere in kinesis.py   *)
(* (the module imports time and abc only), so evaluating the clause for    *)
(* any exception raised in the try block raises NameError.                 *)
(***************************************************************************)
ThrottleNameBound == FALSE

\* what leaves the try statement when exc is raised inside it; "caught" when
\* the handler takes it
PullExcept(exc) ==
    IF ~ThrottleNameBound THEN "NameError"
    ELSE IF exc = "ProvisionedThroughputExceededException" THEN "caught"
    ELSE exc

\* the begin_read argument: main()'s placeholder "filler", or a position of
\* the shard to resume reading at
Filler == [given |-> FALSE, pos |-> 0]
ResumeAt(position) == [given |-> TRUE, pos |-> position]

\* self.currencies: the head of main()'s list, and the keys in it
CurrencyList == <<EUR_USD, USD_CAD>>
Currencies == { CurrencyList[i] : i \in 1..Len(CurrencyList) }

(***************************************************************************)
(* __init__ (as called by main) and the state before run()'s first pull.   *)
(* The first instance is constructed on an empty shard, where LATEST is    *)
(* position 0; Restart constructs on a shard that holds records.           *)
(***************************************************************************)
Init ==
    /\ stream = <<>>
    /\ kind \in Kinds
    /\ instance = 1
    /\ shard_iterator = Iterator(0, 0)
    /\ nextIterator = 1
    /\ pc = "get_records"
    /\ output = <<>>
    /\ idx = 1
    /\ processed_records = <<>>
    /\ store = [k \in {} |-> <<>>]
    /\ now = 0
    /\ ticks = 0
    /\ error = "none"
    /\ usedIterator = Iterator(0, 0)
    /\ usedIds = {}
    /\ lastOutcome = "none"
    /\ lastSleep = 0
    /\ sendsThisPull = 0
    /\ lastSent = <<>>
    /\ batchSrc = <<>>
    /\ processCalls = {}
    /\ openedAt = 0
    /\ pulled = {}
    /\ failedPull = {}
    /\ begin_read = Filler
    /\ storeSrc = [k \in {} |-> <<>>]
    /\ ppc = "fetch"
    /\ exchange_data = <<>>
    /\ pidx = 1
    /\ cycle = 1
    /\ perror = "none"
    /\ fetched = [c \in Currencies |-> "none"]
    /\ puts = <<>>
    /\ other = <<>>
    /\ writer = <<>>
    /\ written = <<>>

\* the producer's put_record: one more record at the end of the shard.  The
\* consumer reads the shard in get_shard_iterator and get_records only, so a
\* record published while it filters or writes is one published just before
\* its next call: only those interleavings are kept
PublishWithin(payload, limit) ==
    /\ Len(stream) < limit
    /\ pc \in {"get_records", "dead"}
    /\ stream' = Append(stream, [SequenceNumber |-> Len(stream) + 1, Data |-> payload])
    /\ UNCHANGED <<nextIterator, kind, instance, shard_iterator, pc, output, idx,
                   processed_records, store, now, ticks, error, usedIterator,
                   usedIds, lastOutcome, lastSleep, sendsThisPull, lastSent,
                   batchSrc, processCalls, openedAt, pulled, failedPull>>
    /\ UNCHANGED <<begin_read, storeSrc>>
    /\ UNCHANGED prodVars
    /\ UNCHANGED <<other, writer, written>>

Publish(payload) == PublishWithin(payload, MaxStream)

\* a second passes outside the sleeps.  Only ForexConsumerRaw.send_records
\* reads the clock (time.time()), so the seconds that pass are placed just
\* before that call
Tick ==
    /\ ticks < MaxTicks
    /\ kind = "raw"
    /\ pc = "send_records"
    /\ now' = now + 1
    /\ ticks' = ticks + 1
    /\ UNCHANGED <<stream, nextIterator, kind, instance, shard_iterator, pc, output,
                   idx, processed_records, store, error, usedIterator, usedIds,
                   lastOutcome, lastSleep, sendsThisPull, lastSent, batchSrc,
                   processCalls, openedAt, pulled, failedPull>>
    /\ UNCHANGED <<begin_read, storeSrc>>
    /\ UNCHANGED prodVars
    /\ UNCHANGED <<other, writer, written>>

\* a pull that forgets self.shard_iterator = output['NextShardIterator']
GetRecordsOk_KeepsIterator(n) ==
    /\ pc = "get_records"
    /\ nextIterator < MaxIterators
    /\ n \in 0..Min(RECORD_LIMIT, Available)
    /\ output' = SubSeq(stream, shard_iterator.pos + 1, shard_iterator.pos + n)
    /\ shard_iterator' = shard_iterator
    /\ nextIterator' = nextIterator + 1
    /\ idx' = 1
    /\ pc' = "filter"
    /\ usedIterator' = shard_iterator
    /\ usedIds' = usedIds \cup {shard_iterator.id}
    /\ lastOutcome' = "ok"
    /\ lastSleep' = 0
    /\ sendsThisPull' = 0
    /\ pulled' = pulled \cup SeqNums(output')
    /\ UNCHANGED <<stream, kind, instance, processed_records, store, now, ticks,
                   error, lastSent, batchSrc, processCalls, openedAt, failedPull>>
    /\ UNCHANGED <<begin_read, storeSrc>>
    /\ UNCHANGED prodVars
    /\ UNCHANGED <<other, writer, written>>

\* pull(): get_records returns n records and NextShardIterator; the iterator
\* is replaced and the for loop starts
GetRecordsOk(n) ==
    /\ pc = "get_records"
    /\ nextIterator < MaxIterators
    /\ n \in 0..Min(RECORD_LIMIT, Available)
    /\ output' = SubSeq(stream, shard_iterator.pos + 1, shard_iterator.pos + n)
    /\ shard_iterator' = Iterator(nextIterator, shard_iterator.pos + n)
    /\ nextIterator' = nextIterator + 1
    /\ idx' = 1
    /\ pc' = "filter"
    /\ usedIterator' = shard_iterator
    /\ usedIds' = usedIds \cup {shard_iterator.id}
    /\ lastOutcome' = "ok"
    /\ lastSleep' = 0
    /\ sendsThisPull' = 0
    /\ pulled' = pulled \cup SeqNums(output')
    /\ UNCHANGED <<stream, kind, instance, processed_records, store, now, ticks,
                   error, lastSent, batchSrc, processCalls, openedAt, failedPull>>
    /\ UNCHANGED <<begin_read, storeSrc>>
    /\ UNCHANGED prodVars
    /\ UNCHANGED <<other, writer, written>>

\* pull(): get_records raises the throttling error inside the try block
GetRecordsThrottled ==
    /\ pc = "get_records"
    /\ usedIterator' = shard_iterator
    /\ lastOutcome' = "throttled"
    /\ sendsThisPull' = 0
    /\ IF PullExcept("ProvisionedThroughputExceededException") = "caught"
       THEN \* time.sleep(30); the generator ends, run() starts its next round
            /\ now' = now + BACKOFF
            /\ lastSleep' = BACKOFF
            /\ pc' = "get_records"
            /\ processed_records' = <<>>
            /\ batchSrc' = <<>>
            /\ error' = error
       ELSE \* the exception leaves pull() and run()
            /\ pc' = "dead"
            /\ error' = PullExcept("ProvisionedThroughputExceededException")
            /\ lastSleep' = 0
            /\ UNCHANGED <<now, processed_records, batchSrc>>
    /\ UNCHANGED <<stream, nextIterator, kind, instance, shard_iterator, output, idx,
                   store, ticks, usedIds, lastSent, processCalls, openedAt, pulled,
                   failedPull>>
    /\ UNCHANGED <<begin_read, storeSrc>>
    /\ UNCHANGED prodVars
    /\ UNCHANGED <<other, writer, written>>

\* pull(): one round of "for record in output['Records']", up to the yield;
\* run() appends what was yielded
FilterRecord ==
    /\ pc = "filter"
    /\ idx <= Len(output)
    /\ LET record == output[idx]
           valid == check_record_validity(kind, record)
           result == process_record(kind, record)
       IN  IF valid.exc # "none"
           THEN /\ pc' = "dead"
                /\ error' = PullExcept(valid.exc)
                /\ UNCHANGED <<idx, processed_records, batchSrc, processCalls>>
           ELSE IF ~valid.val
           THEN /\ idx' = idx + 1
                /\ UNCHANGED <<pc, error, processed_records, batchSrc, processCalls>>
           ELSE IF result.exc # "none"
           THEN /\ pc' = "dead"
                /\ error' = PullExcept(result.exc)
                /\ processCalls' = processCalls \cup {record.SequenceNumber}
                /\ UNCHANGED <<idx, processed_records, batchSrc>>
           ELSE /\ processed_records' = Append(processed_records, result.val)
                /\ batchSrc' = Append(batchSrc, record.SequenceNumber)
                /\ processCalls' = processCalls \cup {record.SequenceNumber}
                /\ idx' = idx + 1
                /\ pc' = "send_records"
                /\ error' = error
    /\ UNCHANGED <<stream, nextIterator, kind, instance, shard_iterator, output,
                   store, now, ticks, usedIterator, usedIds, lastOutcome, lastSleep,
                   sendsThisPull, lastSent, openedAt, pulled, failedPull>>
    /\ UNCHANGED <<begin_read, storeSrc>>
    /\ UNCHANGED prodVars
    /\ UNCHANGED <<other, writer, written>>

\* run(): self.send_records(processed_records) returns; the generator resumes
SendRecordsOk ==
    /\ pc = "send_records"
    /\ store' = send_records(kind, store, processed_records, now)
    /\ lastSent' = processed_records
    /\ sendsThisPull' = sendsThisPull + 1
    /\ pc' = "filter"
    /\ UNCHANGED <<stream, nextIterator, kind, instance, shard_iterator, output, idx,
                   processed_records, now, ticks, error, usedIterator, usedIds,
                   lastOutcome, lastSleep, batchSrc, processCalls, openedAt, pulled,
                   failedPull>>
    /\ storeSrc' = send_records_src(kind, storeSrc, processed_records, batchSrc, now,
                                     Writes(kind, processed_records))
    /\ UNCHANGED begin_read
    /\ UNCHANGED prodVars
    /\ UNCHANGED <<other, writer, written>>

\* a run() that catches the sink's exception and goes on with the generator
SendRecordsFail_Swallowed(j) ==
    /\ pc = "send_records"
    /\ j \in FailPoints(kind, processed_records)
    /\ store' = send_records_failing(kind, store, processed_records, j)
    /\ lastSent' = processed_records
    /\ sendsThisPull' = sendsThisPull + 1
    /\ pc' = "filter"
    /\ error' = "S3ResponseError"
    /\ UNCHANGED <<stream, nextIterator, kind, instance, shard_iterator, output, idx,
                   processed_records, now, ticks, usedIterator, usedIds,
                   lastOutcome, lastSleep, batchSrc, processCalls, openedAt, pulled,
                   failedPull>>
    /\ storeSrc' = send_records_src(kind, storeSrc, processed_records, batchSrc, now, j - 1)
    /\ UNCHANGED begin_read
    /\ UNCHANGED prodVars
    /\ UNCHANGED <<other, writer, written>>

\* run(): an S3 request of the call's j-th write fails; the exception leaves run()
SendRecordsFail(j) ==
    /\ pc = "send_records"
    /\ j \in FailPoints(kind, processed_records)
    /\ store' = send_records_failing(kind, store, processed_records, j)
    /\ lastSent' = processed_records
    /\ sendsThisPull' = sendsThisPull + 1
    /\ pc' = "dead"
    /\ error' = "S3ResponseError"
    /\ UNCHANGED <<stream, nextIterator, kind, instance, shard_iterator, output, idx,
                   processed_records, now, ticks, usedIterator, usedIds,
                   lastOutcome, lastSleep, batchSrc, processCalls, openedAt, pulled,
                   failedPull>>
    /\ storeSrc' = send_records_src(kind, storeSrc, processed_records, batchSrc, now, j - 1)
    /\ UNCHANGED begin_read
    /\ UNCHANGED prodVars
    /\ UNCHANGED <<other, writer, written>>

\* a pull that goes back to get_records without sleeping
Sleep_Skipped ==
    /\ pc = "filter"
    /\ idx > Len(output)
    /\ now' = now
    /\ lastSleep' = 0
    /\ processed_records' = <<>>
    /\ batchSrc' = <<>>
    /\ pc' = "get_records"
    /\ UNCHANGED <<stream, nextIterator, kind, instance, shard_iterator, output, idx,
                   store, ticks, error, usedIterator, usedIds, lastOutcome,
                   sendsThisPull, lastSent, processCalls, openedAt, pulled,
                   failedPull>>
    /\ UNCHANGED <<begin_read, storeSrc>>
    /\ UNCHANGED prodVars
    /\ UNCHANGED <<other, writer, written>>

\* pull(): the for loop is over: time.sleep(self.sleep_period); the generator
\* ends and run() starts its next round with processed_records = []
Sleep ==
    /\ pc = "filter"
    /\ idx > Len(output)
    /\ now' = now + SLEEP_PERIOD
    /\ lastSleep' = SLEEP_PERIOD
    /\ processed_records' = <<>>
    /\ batchSrc' = <<>>
    /\ pc' = "get_records"
    /\ UNCHANGED <<stream, nextIterator, kind, instance, shard_iterator, output, idx,
                   store, ticks, error, usedIterator, usedIds, lastOutcome,
                   sendsThisPull, lastSent, processCalls, openedAt, pulled,
                   failedPull>>
    /\ UNCHANGED <<begin_read, storeSrc>>
    /\ UNCHANGED prodVars
    /\ UNCHANGED <<other, writer, written>>

\* the process ended; main() is started again: __init__, then run()
Restart(b) ==
    /\ pc = "dead"
    /\ instance < MaxInstances
    /\ nextIterator < MaxIterators
    /\ instance' = instance + 1
    /\ shard_iterator' = LatestIterator
    /\ nextIterator' = nextIterator + 1
    /\ pc' = "get_records"
    /\ output' = <<>>
    /\ idx' = 1
    /\ processed_records' = <<>>
    /\ batchSrc' = <<>>
    /\ error' = "none"
    /\ usedIterator' = LatestIterator
    /\ usedIds' = {}
    /\ lastOutcome' = "none"
    /\ lastSleep' = 0
    /\ sendsThisPull' = 0
    /\ lastSent' = <<>>
    /\ processCalls' = {}
    /\ openedAt' = Len(stream)
    /\ pulled' = {}
    /\ failedPull' = IF error = "S3ResponseError" THEN SeqNums(output) ELSE {}
    /\ UNCHANGED <<stream, kind, store, now, ticks>>
    /\ begin_read' = b
    /\ UNCHANGED storeSrc
    /\ UNCHANGED prodVars
    /\ UNCHANGED <<other, writer, written>>

Next ==
    \/ \E payload \in Payloads : Publish(payload)
    \/ Tick
    \/ \E n \in 0..MaxStream : GetRecordsOk(n)
    \/ GetRecordsThrottled
    \/ FilterRecord
    \/ SendRecordsOk
    \/ \E j \in 1..MaxStream : SendRecordsFail(j)
    \/ Sleep
    \/ \E b \in {Filler} : Restart(b)

Spec == Init /\ [][Next]_vars

(***************************************************************************)
(* A second specification for the transform: ForexConsumerProcessed fed    *)
(* with well-formed quotes only, over more instruments and prices.         *)
(***************************************************************************)
USD_JPY == <<"U", "S", "D", "_", "J", "P", "Y">>
XAU_USD == <<"X", "A", "U", "_", "U", "S", "D">>

\* bid and ask, bid > 0 and ask > 0
Quotes ==
    { Quote(USD_CAD, UnixTime(30, 7), Float(4, 3), Float(3, 2)),
      Quote(USD_JPY, UnixTime(30, 7), Float(4, 3), Float(3, 2)),
      Quote(USD_JPY, UnixTime(DAY_SECONDS, 0), Float(1, 1), Float(221, 2)),
      Quote(EUR_USD, UnixTime(30, 7), Float(4, 3), Float(3, 2)),
      Quote(EUR_USD, UnixTime(DAY_SECONDS, 0), Float(1, 1), Float(221, 2)),
      Quote(XAU_USD, UnixTime(30, 7), Float(4, 3), Float(3, 2)) }

QuotePayloads == { Prices(<<q>>) : q \in Quotes }

InitQuotes == Init /\ kind = "processed"

NextQuotes ==
    \/ \E payload \in QuotePayloads : Publish(payload)
    \/ \E n \in 0..MaxStream : GetRecordsOk(n)
    \/ GetRecordsThrottled
    \/ FilterRecord
    \/ SendRecordsOk
    \/ \E j \in 1..MaxStream : SendRecordsFail(j)
    \/ Sleep
    \/ \E b \in {Filler} : Restart(b)

SpecQuotes == InitQuotes /\ [][NextQuotes]_vars

(***************************************************************************)
(* A specification in which the consumer is constructed again with a       *)
(* begin_read that names a position of the shard, or with main()'s         *)
(* placeholder.                                                            *)
(***************************************************************************)
BeginReads == {Filler} \cup { ResumeAt(position) : position \in 0..Len(stream) }

InitResume == Init /\ kind = "processed"

NextResume ==
    \/ \E payload \in Payloads : Publish(payload)
    \/ \E n \in 0..MaxStream : GetRecordsOk(n)
    \/ GetRecordsThrottled
    \/ FilterRecord
    \/ SendRecordsOk
    \/ \E j \in 1..MaxStream : SendRecordsFail(j)
    \/ Sleep
    \/ \E b \in BeginReads : Restart(b)

SpecResume == InitResume /\ [][NextResume]_vars

(***************************************************************************)
(* A specification with pulls of up to three records, for the order of the *)
(* rows in an object: the processed consumer over two quotes of one symbol *)
(* and day and one of another symbol.                                      *)
(***************************************************************************)
MaxOrderStream == 3

OrderPayloads ==
    { Prices(<<Quote(USD_CAD, UnixTime(1577836800, 0), Float(4, 3), Float(3, 2))>>),
      Prices(<<Quote(USD_CAD, UnixTime(1577836860, 0), Float(5, 4), Float(3, 2))>>),
      Prices(<<Quote(EUR_USD, UnixTime(1577836800, 0), Float(5, 4), Float(4, 3))>>) }

InitOrder == Init /\ kind = "processed"

NextOrder ==
    \/ \E payload \in OrderPayloads : PublishWithin(payload, MaxOrderStream)
    \/ \E n \in 0..MaxOrderStream : GetRecordsOk(n)
    \/ GetRecordsThrottled
    \/ FilterRecord
    \/ SendRecordsOk
    \/ \E j \in 1..MaxOrderStream : SendRecordsFail(j)
    \/ Sleep
    \/ \E b \in {Filler} : Restart(b)

SpecOrder == InitOrder /\ [][NextOrder]_vars

(***************************************************************************)
(* Two consumer processes on one stream: consumer_process.py's main() and  *)
(* consumer_raw.py's main(), each with its own KinesisConsumer object and  *)
(* its own bucket.  One of them takes steps; the fields of the one that is *)
(* not scheduled are kept in other.                                        *)
(***************************************************************************)
\* the fields of the consumer that is taking steps, and its bucket
Locals ==
    [ kind |-> kind,
      instance |-> instance,
      shard_iterator |-> shard_iterator,
      pc |-> pc,
      output |-> output,
      idx |-> idx,
      processed_records |-> processed_records,
      store |-> store,
      error |-> error,
      usedIterator |-> usedIterator,
      usedIds |-> usedIds,
      lastOutcome |-> lastOutcome,
      lastSleep |-> lastSleep,
      sendsThisPull |-> sendsThisPull,
      lastSent |-> lastSent,
      batchSrc |-> batchSrc,
      processCalls |-> processCalls,
      openedAt |-> openedAt,
      pulled |-> pulled,
      failedPull |-> failedPull,
      begin_read |-> begin_read,
      storeSrc |-> storeSrc ]

\* a consumer of class k as __init__ leaves it on an empty shard, its
\* iterator the serial-th the service issued
Constructed(class, serial) ==
    [ kind |-> class,
      instance |-> 1,
      shard_iterator |-> Iterator(serial, 0),
      pc |-> "get_records",
      output |-> <<>>,
      idx |-> 1,
      processed_records |-> <<>>,
      store |-> [key \in {} |-> <<>>],
      error |-> "none",
      usedIterator |-> Iterator(serial, 0),
      usedIds |-> {},
      lastOutcome |-> "none",
      lastSleep |-> 0,
      sendsThisPull |-> 0,
      lastSent |-> <<>>,
      batchSrc |-> <<>>,
      processCalls |-> {},
      openedAt |-> 0,
      pulled |-> {},
      failedPull |-> {},
      begin_read |-> Filler,
      storeSrc |-> [key \in {} |-> <<>>] ]

PairPayloads ==
    { Unparseable,
      Prices(<<Quote(USD_CAD, UnixTime(30, 0), Float(4, 3), Float(3, 2))>>) }

InitPair ==
    /\ stream = <<>>
    /\ kind = "processed"
    /\ instance = 1
    /\ shard_iterator = Iterator(0, 0)
    /\ pc = "get_records"
    /\ output = <<>>
    /\ idx = 1
    /\ processed_records = <<>>
    /\ store = [k \in {} |-> <<>>]
    /\ error = "none"
    /\ usedIterator = Iterator(0, 0)
    /\ usedIds = {}
    /\ lastOutcome = "none"
    /\ lastSleep = 0
    /\ sendsThisPull = 0
    /\ lastSent = <<>>
    /\ batchSrc = <<>>
    /\ processCalls = {}
    /\ openedAt = 0
    /\ pulled = {}
    /\ failedPull = {}
    /\ begin_read = Filler
    /\ storeSrc = [k \in {} |-> <<>>]
    /\ nextIterator = 2
    /\ now = 0
    /\ ticks = 0
    /\ ppc = "fetch"
    /\ exchange_data = <<>>
    /\ pidx = 1
    /\ cycle = 1
    /\ perror = "none"
    /\ fetched = [c \in Currencies |-> "none"]
    /\ puts = <<>>
    /\ other = Constructed("raw", 1)
    /\ writer = <<>>
    /\ written = <<>>

\* the operating system takes the running consumer off the processor and
\* lets the other one run
Switch ==
    /\ other # <<>>
    /\ other' = Locals
    /\ kind' = other.kind
    /\ instance' = other.instance
    /\ shard_iterator' = other.shard_iterator
    /\ pc' = other.pc
    /\ output' = other.output
    /\ idx' = other.idx
    /\ processed_records' = other.processed_records
    /\ store' = other.store
    /\ error' = other.error
    /\ usedIterator' = other.usedIterator
    /\ usedIds' = other.usedIds
    /\ lastOutcome' = other.lastOutcome
    /\ lastSleep' = other.lastSleep
    /\ sendsThisPull' = other.sendsThisPull
    /\ lastSent' = other.lastSent
    /\ batchSrc' = other.batchSrc
    /\ processCalls' = other.processCalls
    /\ openedAt' = other.openedAt
    /\ pulled' = other.pulled
    /\ failedPull' = other.failedPull
    /\ begin_read' = other.begin_read
    /\ storeSrc' = other.storeSrc
    /\ UNCHANGED <<stream, nextIterator, now, ticks, writer, written>>
    /\ UNCHANGED prodVars

NextPair ==
    \/ \E payload \in PairPayloads : Publish(payload)
    \/ \E n \in 0..MaxStream : GetRecordsOk(n)
    \/ GetRecordsThrottled
    \/ FilterRecord
    \/ SendRecordsOk
    \/ \E j \in 1..MaxStream : SendRecordsFail(j)
    \/ Sleep
    \/ Switch

SpecPair == InitPair /\ [][NextPair]_vars

(***************************************************************************)
(* ForexConsumerProcessed.send_record step by step, called by several      *)
(* writers on one bucket: get_key, then get_contents_as_string and +=,     *)
(* then set_contents_from_string; or new_key and set_contents_from_string. *)
(***************************************************************************)
MaxWriters == 2
MaxWrites == 2

Writers == 1..MaxWriters

WriterRecords ==
    { Processed_process_record([SequenceNumber |-> 1, Data |-> payload]).val :
        payload \in OrderPayloads }

\* a writer that is not inside send_record
IdleWriter ==
    [pc |-> "idle", record |-> <<>>, todays_data_as_string |-> <<>>, calls |-> 0,
     keys |-> {}]

WriterState(w) == IF w \in DOMAIN writer THEN writer[w] ELSE IdleWriter

sinkFrame ==
    <<stream, nextIterator, kind, instance, shard_iterator, pc, output, idx,
      processed_records, now, ticks, error, usedIterator, usedIds, lastOutcome,
      lastSleep, sendsThisPull, lastSent, batchSrc, processCalls, openedAt, pulled,
      failedPull, begin_read, storeSrc, other>>

\* send_record is called: key_path is formatted and get_key looks it up
GetKey(w, processed_record) ==
    /\ WriterState(w).pc = "idle"
    /\ WriterState(w).calls < MaxWrites
    /\ writer' = (w :> [WriterState(w) EXCEPT
                          !.pc = IF KeyPath(processed_record) \in DOMAIN store
                                 THEN "found" ELSE "absent",
                          !.record = processed_record,
                          !.keys = @ \cup {KeyPath(processed_record)}]) @@ writer
    /\ UNCHANGED <<store, written>>
    /\ UNCHANGED sinkFrame
    /\ UNCHANGED prodVars

\* todays_data_as_string = get_contents_as_string(); += instrument_data
GetContents(w) ==
    /\ WriterState(w).pc = "found"
    /\ writer' = [writer EXCEPT
                    ![w].todays_data_as_string =
                        Append(store[KeyPath(writer[w].record)], CsvRow(writer[w].record)),
                    ![w].pc = "write"]
    /\ UNCHANGED <<store, written>>
    /\ UNCHANGED sinkFrame
    /\ UNCHANGED prodVars

\* a set_contents_from_string that stores the new row alone
SetContents_RowOnly(w) ==
    /\ WriterState(w).pc = "write"
    /\ store' = [store EXCEPT ![KeyPath(writer[w].record)] = <<CsvRow(writer[w].record)>>]
    /\ written' = Append(written, writer[w].record)
    /\ writer' = [writer EXCEPT ![w].pc = "idle", ![w].calls = @ + 1]
    /\ UNCHANGED sinkFrame
    /\ UNCHANGED prodVars

\* todays_data_file.set_contents_from_string(todays_data_as_string)
SetContents(w) ==
    /\ WriterState(w).pc = "write"
    /\ store' = [store EXCEPT ![KeyPath(writer[w].record)] = writer[w].todays_data_as_string]
    /\ written' = Append(written, writer[w].record)
    /\ writer' = [writer EXCEPT ![w].pc = "idle", ![w].calls = @ + 1]
    /\ UNCHANGED sinkFrame
    /\ UNCHANGED prodVars

\* new_key(key_path) and set_contents_from_string(instrument_data)
NewKey(w) ==
    /\ WriterState(w).pc = "absent"
    /\ store' = (KeyPath(writer[w].record) :> <<CsvRow(writer[w].record)>>) @@ store
    /\ written' = Append(written, writer[w].record)
    /\ writer' = [writer EXCEPT ![w].pc = "idle", ![w].calls = @ + 1]
    /\ UNCHANGED sinkFrame
    /\ UNCHANGED prodVars

InitWriters == Init /\ kind = "processed"

NextWriters ==
    \/ \E w \in Writers, r \in WriterRecords : GetKey(w, r)
    \/ \E w \in Writers : GetContents(w)
    \/ \E w \in Writers : SetContents(w)
    \/ \E w \in Writers : NewKey(w)

SpecWriters == InitWriters /\ [][NextWriters]_vars

(***************************************************************************)
(* The producer: ForexProducer.pull() driven by KinesisProducer.run().     *)
(***************************************************************************)
MaxCycles == 2
POLL_INTERVAL == 60

consVars == <<nextIterator, kind, instance, shard_iterator, pc, output, idx,
              processed_records, store, ticks, error, usedIterator, usedIds,
              lastOutcome, lastSleep, sendsThisPull, lastSent, batchSrc,
              processCalls, openedAt, pulled, failedPull, begin_read, storeSrc,
              other, writer, written>>

\* what one get_exchange_rate call can come to: the quote as JSON text, an
\* error body as JSON text (the status is not looked at), text that is not
\* JSON, or an exception of requests.get
FetchOutcomes == {"quote", "error_body", "not_json", "raise"}

\* requests.get(...).text
ResponseText(currency_pair, outcome, round) ==
    IF outcome = "quote"
    THEN Prices(<<Quote(currency_pair, UnixTime(POLL_INTERVAL * round, 0),
                        Float(5, 4), Float(4, 3))>>)
    ELSE IF outcome = "error_body" THEN NoPrices
    ELSE Unparseable

\* json.dumps of a document json.loads returned: text that parses, with the
\* document's keys
PayloadText(doc) == [parses |-> TRUE, hasPrices |-> doc.hasPrices, prices |-> doc.prices]

\* one worker of multi_pool.map finishes get_exchange_rate for its currency
FetchOne(currency_pair, outcome) ==
    /\ ppc = "fetch"
    /\ fetched[currency_pair] = "none"
    /\ fetched' = [fetched EXCEPT ![currency_pair] = outcome]
    /\ UNCHANGED <<ppc, exchange_data, pidx, cycle, perror, puts, stream, now>>
    /\ UNCHANGED consVars

\* multi_pool.map returns when every worker is done: the list of texts in the
\* order of self.currencies, or the exception a worker raised
Join ==
    /\ ppc = "fetch"
    /\ \A c \in Currencies : fetched[c] # "none"
    /\ IF \E c \in Currencies : fetched[c] = "raise"
       THEN /\ ppc' = "dead"
            /\ perror' = "ConnectionError"
            /\ UNCHANGED <<exchange_data, pidx>>
       ELSE /\ exchange_data' = [i \in 1..Len(CurrencyList) |->
                                   ResponseText(CurrencyList[i], fetched[CurrencyList[i]], cycle)]
            /\ pidx' = 1
            /\ ppc' = "put"
            /\ UNCHANGED perror
    /\ UNCHANGED <<cycle, fetched, puts, stream, now>>
    /\ UNCHANGED consVars

\* the next turn of pull()'s for loop: json.dumps(json.loads(exchange_rate))
\* is yielded and run() puts it on the stream
PutNext ==
    /\ ppc = "put"
    /\ pidx <= Len(exchange_data)
    /\ LET loaded == JsonLoads(exchange_data[pidx])
       IN  IF loaded.exc # "none"
           THEN /\ ppc' = "dead"
                /\ perror' = loaded.exc
                /\ UNCHANGED <<stream, puts, pidx>>
           ELSE /\ stream' = Append(stream, [SequenceNumber |-> Len(stream) + 1,
                                              Data |-> PayloadText(loaded.val)])
                /\ puts' = Append(puts, CurrencyList[pidx])
                /\ pidx' = pidx + 1
                /\ UNCHANGED <<ppc, perror>>
    /\ UNCHANGED <<exchange_data, cycle, fetched, now>>
    /\ UNCHANGED consVars

\* client.put_record raises
PutRecordFails ==
    /\ ppc = "put"
    /\ pidx <= Len(exchange_data)
    /\ JsonLoads(exchange_data[pidx]).exc = "none"
    /\ ppc' = "dead"
    /\ perror' = "ProvisionedThroughputExceededException"
    /\ UNCHANGED <<exchange_data, pidx, cycle, fetched, puts, stream, now>>
    /\ UNCHANGED consVars

\* the for loop is through: time.sleep(60), and pull() returns
ProducerSleep ==
    /\ ppc = "put"
    /\ pidx > Len(exchange_data)
    /\ now' = now + POLL_INTERVAL
    /\ ppc' = "slept"
    /\ UNCHANGED <<exchange_data, pidx, cycle, perror, fetched, puts, stream>>
    /\ UNCHANGED consVars

\* run()'s while True: pull() is called again
NextCycle ==
    /\ ppc = "slept"
    /\ cycle < MaxCycles
    /\ cycle' = cycle + 1
    /\ ppc' = "fetch"
    /\ fetched' = [c \in Currencies |-> "none"]
    /\ puts' = <<>>
    /\ exchange_data' = <<>>
    /\ pidx' = 1
    /\ UNCHANGED <<perror, stream, now>>
    /\ UNCHANGED consVars

InitProducer == Init /\ kind = "raw"

NextProducer ==
    \/ \E c \in Currencies, o \in FetchOutcomes : FetchOne(c, o)
    \/ Join
    \/ PutNext
    \/ PutRecordFails
    \/ ProducerSleep
    \/ NextCycle

SpecProducer == InitProducer /\ [][NextProducer]_vars

(***************************************************************************)
(* A third specification for send_record: the processed consumer over      *)
(* quotes on both sides of a local midnight, of a month's end and of a     *)
(* year's end, and one payload whose prices are text.                      *)
(***************************************************************************)
Str(n, d) == [type |-> "str", num |-> n, den |-> d]

USD_EUR == <<"U", "S", "D", "_", "E", "U", "R">>
EUR == <<"E", "U", "R">>

\* instrument 'USD_EUR', time '1577836800000000', bid '0.9', ask '0.91'; int()
\* reads the time from text as it does from a number
ScenarioPayload ==
    Prices(<<Quote(USD_EUR, UnixTime(1577836800, 0), Str(9, 10), Str(91, 100))>>)

SinkQuotes ==
    { Quote(USD_CAD, UnixTime(1577836800, 0), Float(4, 3), Float(3, 2)),
      Quote(USD_CAD, UnixTime(1577865599, 999999), Float(4, 3), Float(3, 2)),
      Quote(USD_CAD, UnixTime(1577865600, 0), Float(5, 4), Float(3, 2)),
      Quote(EUR_USD, UnixTime(1577865600, 0), Float(5, 4), Float(4, 3)),
      Quote(USD_CAD, UnixTime(1577952000, 0), Float(5, 4), Float(3, 2)),
      Quote(USD_CAD, UnixTime(1580544000, 0), Float(4, 3), Float(3, 2)),
      Quote(EUR_USD, UnixTime(1609488000, 0), Float(5, 4), Float(4, 3)) }

SinkPayloads == { Prices(<<q>>) : q \in SinkQuotes } \cup {ScenarioPayload}

InitSink == Init /\ kind = "processed"

NextSink ==
    \/ \E payload \in SinkPayloads : Publish(payload)
    \/ \E n \in 0..MaxStream : GetRecordsOk(n)
    \/ GetRecordsThrottled
    \/ FilterRecord
    \/ SendRecordsOk
    \/ \E j \in 1..MaxStream : SendRecordsFail(j)
    \/ Sleep
    \/ \E b \in {Filler} : Restart(b)

SpecSink == InitSink /\ [][NextSink]_vars

(***************************************************************************)
(* A fourth specification: ForexConsumerProcessed.send_records called      *)
(* again and again with one batch, on a bucket that starts empty.          *)
(***************************************************************************)
MaxBatch == 2
MaxCalls == 2

\* what process_record makes of the quotes
ProcessedQuotes ==
    { Processed_process_record([SequenceNumber |-> 1, Data |-> Prices(<<q>>)]).val :
        q \in SinkQuotes }

Batches == UNION { [1..n -> ProcessedQuotes] : n \in 1..MaxBatch }

InitTwice ==
    /\ stream = <<>>
    /\ kind = "processed"
    /\ instance = 1
    /\ shard_iterator = Iterator(0, 0)
    /\ nextIterator = 1
    /\ pc = "send_records"
    /\ output = <<>>
    /\ idx = 1
    /\ processed_records \in Batches
    /\ store = [k \in {} |-> <<>>]
    /\ now = 0
    /\ ticks = 0
    /\ error = "none"
    /\ usedIterator = Iterator(0, 0)
    /\ usedIds = {}
    /\ lastOutcome = "none"
    /\ lastSleep = 0
    /\ sendsThisPull = 0
    /\ lastSent = <<>>
    /\ batchSrc = <<>>
    /\ processCalls = {}
    /\ openedAt = 0
    /\ pulled = {}
    /\ failedPull = {}
    /\ begin_read = Filler
    /\ storeSrc = [k \in {} |-> <<>>]
    /\ ppc = "fetch"
    /\ exchange_data = <<>>
    /\ pidx = 1
    /\ cycle = 1
    /\ perror = "none"
    /\ fetched = [c \in Currencies |-> "none"]
    /\ puts = <<>>
    /\ other = <<>>
    /\ writer = <<>>
    /\ written = <<>>

\* self.send_records(processed_records), once more with the same list
SendRecordsAgain ==
    /\ pc = "send_records"
    /\ sendsThisPull < MaxCalls
    /\ store' = send_records(kind, store, processed_records, now)
    /\ lastSent' = processed_records
    /\ sendsThisPull' = sendsThisPull + 1
    /\ UNCHANGED <<stream, nextIterator, kind, instance, shard_iterator, pc, output,
                   idx, processed_records, now, ticks, error, usedIterator, usedIds,
                   lastOutcome, lastSleep, batchSrc, processCalls, openedAt, pulled,
                   failedPull, begin_read, storeSrc>>
    /\ UNCHANGED prodVars
    /\ UNCHANGED <<other, writer, written>>

NextTwice == SendRecordsAgain

SpecTwice == InitTwice /\ [][NextTwice]_vars

(***************************************************************************)
(* Properties.                                                             *)
(***************************************************************************)
Malformed(data) == ~data.parses \/ ~data.hasPrices \/ Len(data.prices) = 0

\* the records of the current pull that are still to go through the filter
Unfiltered == idx <= Len(output)

\* the SequenceNumbers of the well-formed records among the first n of the pull
RECURSIVE ValidSrc(_)
ValidSrc(n) ==
    IF n = 0 THEN <<>>
    ELSE IF Malformed(output[n].Data) THEN ValidSrc(n - 1)
    ELSE Append(ValidSrc(n - 1), output[n].SequenceNumber)

\* C1: for every successful pull send_records is invoked exactly once, after
\* the whole batch of that pull has been accumulated, with exactly that
\* pull's valid records, transformed.
C1_OneSinkWritePerPull ==
    /\ sendsThisPull <= 1
    /\ pc = "send_records" =>
          /\ ~Unfiltered
          /\ batchSrc = ValidSrc(Len(output))

\* C2: while some record of the current pull is still unfiltered,
\* shard_iterator holds the value that was used for that get_records call.
C2_CursorKeptWhileFiltering ==
    (lastOutcome = "ok" /\ pc \in {"filter", "send_records"} /\ Unfiltered)
        => shard_iterator = usedIterator

\* C3: after a throttled get_records the cursor is unchanged, no sink write
\* happened, run() has not ended and is about to call get_records again.
C3_ThrottleRetriesSamePull ==
    lastOutcome = "throttled" =>
        /\ shard_iterator = usedIterator
        /\ sendsThisPull = 0
        /\ error = "none"
        /\ pc = "get_records"

\* C4: after a throttled get_records the consumer has slept a backoff
\* strictly longer than the poll interval sleep_period.
C4_BackoffLongerThanPoll ==
    lastOutcome = "throttled" => lastSleep > SLEEP_PERIOD

\* C5: one instance never calls get_records with an iterator it has already
\* used in a successful get_records.
C5_CursorNeverReused ==
    pc = "get_records" => shard_iterator.id \notin usedIds

C5_Witness ==
    /\ pc = "get_records"
    /\ Cardinality(usedIds) >= 2

\* C6: a record whose payload has no 'prices' field is never given to
\* process_record, and no entry of a batch comes from one.
C6_NoPricesNeverForwarded ==
    /\ \A sn \in processCalls : stream[sn].Data.hasPrices
    /\ \A i \in DOMAIN batchSrc : stream[batchSrc[i]].Data.hasPrices

\* a pull in which a record without 'prices' came before a valid one, which
\* is about to be written
C6_Witness ==
    /\ pc = "send_records"
    /\ \E i \in 1..(idx - 1) : output[i].Data = NoPrices

\* C7: a malformed record (unparseable, without 'prices', or with an empty
\* price list) is dropped and run() does not end because of it.
C7_MalformedRecordDropped ==
    ~ ( /\ pc = "dead"
        /\ error # "S3ResponseError"
        /\ lastOutcome = "ok"
        /\ Unfiltered
        /\ Malformed(output[idx].Data) )

\* C8: once send_records has raised, run() is over: no get_records call and
\* no sink write follow in that run.
C8_SinkFailureEndsRun ==
    /\ [](error = "S3ResponseError" => pc = "dead")
    /\ [][(error = "S3ResponseError" /\ instance' = instance)
            => UNCHANGED <<store, shard_iterator, nextIterator, usedIterator,
                           lastOutcome, sendsThisPull, lastSent, pc, error>>]_vars

\* the sink write failed while records of the pull were still to be filtered
C8_Witness ==
    /\ error = "S3ResponseError"
    /\ pc = "dead"
    /\ Unfiltered

\* C9 (as claimed): the restarted consumer pulls the records of the failed
\* pull again: being read in publish order, they are among the first records
\* it receives.
C9_FailedPullPulledAgain ==
    (failedPull # {} /\ pulled # {}) => failedPull \cap pulled # {}

\* C9 (amended): the restarted consumer's cursor is opened at LATEST: it pulls
\* only records published after its construction, never those of the pull
\* whose sink write failed.
C9_RestartSkipsFailedPull ==
    /\ \A sn \in pulled : sn > openedAt
    /\ failedPull \cap pulled = {}

C9_Witness ==
    /\ failedPull # {}
    /\ pulled # {}

\* C10: for an instrument USD_SYM process_record returns SYM, the timestamp
\* untouched and the inverses of bid and ask; for any other instrument the
\* first 3 characters, the timestamp, bid and ask untouched.
C10_Normalization ==
    kind = "processed" =>
        \A i \in DOMAIN processed_records :
            LET q == stream[batchSrc[i]].Data.prices[1]
                name == q.instrument
                out == processed_records[i]
            IN  /\ out[2] = q.time
                /\ IF <<name[1], name[2], name[3]>> = <<"U", "S", "D">>
                   THEN /\ out[1] = <<name[5], name[6], name[7]>>
                        /\ out[3].num * q.bid.num = out[3].den * q.bid.den
                        /\ out[4].num * q.ask.num = out[4].den * q.ask.den
                   ELSE /\ out[1] = <<name[1], name[2], name[3]>>
                        /\ out[3] = q.bid
                        /\ out[4] = q.ask

\* a batch holding the transform of a USD-first quote and of a USD-second one
C10_Witness ==
    /\ kind = "processed"
    /\ Len(processed_records) = 2
    /\ stream[batchSrc[1]].Data.prices[1].instrument = USD_JPY
    /\ processed_records[1][1] = <<"J", "P", "Y">>
    /\ stream[batchSrc[2]].Data.prices[1].instrument = XAU_USD

(***************************************************************************)
(* send_record and send_records.                                           *)
(***************************************************************************)
\* the processed record made from the stream record with SequenceNumber seq
ProcessedOf(seq) == Processed_process_record(stream[seq]).val

\* the calendar date of a processed record's timestamp
DateOf(processed_record) ==
    LET record_time == RecordTime(ToSeconds(processed_record[2]))
    IN  <<record_time.year, record_time.month, record_time.day>>

\* C11: every row of every object is the row of the record it was written
\* for, and two written records are in the same object exactly when they have
\* the same symbol and the same calendar date, whichever batches wrote them.
C11_PartitionRouting ==
    /\ DOMAIN storeSrc = DOMAIN store
    /\ \A k \in DOMAIN store :
          /\ Len(store[k]) = Len(storeSrc[k])
          /\ \A a \in 1..Len(store[k]) : store[k][a] = CsvRow(ProcessedOf(storeSrc[k][a]))
    /\ \A k1, k2 \in DOMAIN storeSrc :
          \A a \in 1..Len(storeSrc[k1]), b \in 1..Len(storeSrc[k2]) :
             LET r1 == ProcessedOf(storeSrc[k1][a])
                 r2 == ProcessedOf(storeSrc[k2][b])
             IN  (k1 = k2) <=> (r1[1] = r2[1] /\ DateOf(r1) = DateOf(r2))

\* two records of one symbol and date written by different send_records
\* calls, next to an object of the same symbol and month on another day
C11_Witness ==
    \E k1, k2 \in DOMAIN storeSrc :
       /\ k1 # k2
       /\ k1[1] = k2[1] /\ k1[2] = k2[2] /\ k1[3] = k2[3]
       /\ Len(storeSrc[k1]) >= 2
       /\ sendsThisPull >= 2

\* the rows of a batch, in batch order
Rows(batch) == [i \in 1..Len(batch) |-> CsvRow(batch[i])]

\* the keys the records of a batch route to
KeysOf(batch) == { KeyPath(batch[i]) : i \in 1..Len(batch) }

\* C12: after two successive send_records calls with one batch B whose records
\* all route to one key, absent before the first call, the object at that key
\* holds B's rows in batch order followed by B's rows in batch order: 2*|B| rows.
C12_SameBatchTwice ==
    (sendsThisPull = 2 /\ Cardinality(KeysOf(processed_records)) = 1)
        => \A K \in KeysOf(processed_records) :
              /\ DOMAIN store = {K}
              /\ Len(store[K]) = 2 * Len(processed_records)
              /\ store[K] = Rows(processed_records) \o Rows(processed_records)

\* a batch of two different records of one key, sent twice
C12_Witness ==
    /\ sendsThisPull = 2
    /\ Len(processed_records) = 2
    /\ processed_records[1] # processed_records[2]
    /\ Cardinality(KeysOf(processed_records)) = 1
    /\ Cardinality(DOMAIN store) = 1

\* the rows of the records of a batch that route to key K, in batch order
RowsTo(batch, K) == Rows(SelectSeq(batch, LAMBDA p : KeyPath(p) = K))

\* C13: a send_records(batch) call that returns leaves, at every key a record
\* of the batch routes to, the old content (nothing if the object did not
\* exist) followed by the rows of the batch's records routed there in batch
\* order, creates no other object and leaves every other object as it was.
C13_SendRecordsFrame ==
    [][ (kind = "processed" /\ pc = "send_records" /\ pc' = "filter")
          => /\ DOMAIN store' = DOMAIN store \cup KeysOf(processed_records)
             /\ \A K \in KeysOf(processed_records) :
                   store'[K] = (IF K \in DOMAIN store THEN store[K] ELSE <<>>)
                                   \o RowsTo(processed_records, K)
             /\ \A K \in DOMAIN store \ KeysOf(processed_records) :
                   store'[K] = store[K] ]_vars

\* a call returned that appended to an object it found and created another
C13_Witness ==
    /\ kind = "processed"
    /\ pc = "filter"
    /\ sendsThisPull = 2
    /\ lastSent = processed_records
    /\ Len(lastSent) = 2
    /\ Cardinality(KeysOf(lastSent)) = 2
    /\ Len(store[KeyPath(lastSent[1])]) = 2
    /\ Len(store[KeyPath(lastSent[2])]) = 1

\* the first pull of the first instance returned the scenario's record, the
\* only record of the stream, and the run loop is through with that pull
ScenarioCycleOver ==
    /\ instance = 1
    /\ Len(stream) = 1
    /\ stream[1].Data = ScenarioPayload
    /\ pulled = {1}
    /\ pc \in {"get_records", "dead"}

\* C14: one run-loop cycle over the record with instrument 'USD_EUR' and the
\* prices '0.9' and '0.91' as text, the store empty before, leaves exactly one
\* object, holding exactly one row: symbol 'EUR', bid 1/0.9, ask 1/0.91.
C14_ScenarioEndToEnd ==
    ScenarioCycleOver
        => /\ Cardinality(DOMAIN store) = 1
           /\ \A K \in DOMAIN store :
                 /\ K[1] = EUR
                 /\ Len(store[K]) = 1
                 /\ store[K][1][1] = EUR
                 /\ store[K][1][3] = Float(10, 9)
                 /\ store[K][1][4] = Float(100, 91)

(***************************************************************************)
(* The producer's cycle.                                                   *)
(***************************************************************************)
\* the keys whose fetch failed in this cycle: it raised, or its payload does
\* not parse
FailedKeys == { c \in Currencies : fetched[c] \in {"raise", "not_json"} }

\* the keys whose fetch succeeded in this cycle, in the order of self.currencies
FetchedOk == SelectSeq(CurrencyList, LAMBDA c : fetched[c] \in {"quote", "error_body"})

\* the cycle is through: pull() returned after its sleep, or run() ended
CycleOver == ppc \in {"slept", "dead"}

\* C15: when the fetch of a key failed in a cycle (and no put_record did), the
\* cycle ends with the sleep, not with the end of run(), and what it published
\* is the payload of every key whose fetch succeeded and nothing for the
\* failed keys.
C15_FetchIsolation ==
    (CycleOver /\ FailedKeys # {} /\ perror # "ProvisionedThroughputExceededException")
        => /\ ppc = "slept"
           /\ puts = FetchedOk

\* C16: no put_record before every fetch of the cycle is done; and a cycle
\* that no put_record failure ended has published each successfully fetched
\* key's payload exactly once, in list order, and has then slept.
C16_CycleShape ==
    /\ Len(puts) > 0 => \A c \in Currencies : fetched[c] # "none"
    /\ (CycleOver /\ perror # "ProvisionedThroughputExceededException")
          => /\ ppc = "slept"
             /\ puts = FetchedOk

(***************************************************************************)
(* The archival consumer, the cursor, the run loop, the order of rows.     *)
(***************************************************************************)
\* the first pull of the first instance is complete (its sleep is over) and
\* had at least one valid record
FirstCycleComplete ==
    /\ instance = 1
    /\ Cardinality(usedIds) = 1
    /\ lastOutcome = "ok"
    /\ pc = "get_records"
    /\ sendsThisPull >= 1

\* C17: after a complete pull cycle of the archival consumer with k >= 1 valid
\* records, the store empty before, exactly one object exists, and it holds
\* exactly the k records of the pull, each once, in pull order.
C17_OneArchivePerCycle ==
    (kind = "raw" /\ FirstCycleComplete)
        => /\ Cardinality(DOMAIN store) = 1
           /\ \A K \in DOMAIN store :
                 /\ storeSrc[K] = ValidSrc(Len(output))
                 /\ store[K] = lastSent

\* __init__ has returned and run() has not yet called get_records
JustConstructed == pc = "get_records" /\ lastOutcome = "none"

\* C18: the starting cursor stands at the supplied resume position when
\* begin_read supplies one, and at LATEST (the end of the shard when it was
\* opened) otherwise.
C18_StartingCursor ==
    JustConstructed
        => shard_iterator.pos = (IF begin_read.given THEN begin_read.pos ELSE openedAt)

\* C19: throttled pulls, empty pulls and invalid records never end run():
\* when run() has ended, the last get_records call was not throttled and the
\* record the filter stood at was not a malformed one.
C19_NoTerminalState ==
    pc = "dead"
        => /\ lastOutcome # "throttled"
           /\ ~(Unfiltered /\ Malformed(output[idx].Data) /\ error # "S3ResponseError")

\* C20: in every object the rows are in stream publish order: no row made
\* from an earlier stream record stands after a row made from a later one.
C20_RowsInPublishOrder ==
    \A K \in DOMAIN storeSrc :
       \A a, b \in 1..Len(storeSrc[K]) :
          a < b => storeSrc[K][a] <= storeSrc[K][b]

(***************************************************************************)
(* Rows per cycle, restart, sleeps, two consumers, two writers.            *)
(***************************************************************************)
\* the places in the store that hold a row made from stream record seq
RowsFrom(seq) ==
    { <<K, a>> \in UNION { {K} \X (1..Len(storeSrc[K])) : K \in DOMAIN storeSrc } :
        storeSrc[K][a] = seq }

\* every place of the store that holds a row
AllRows == UNION { {K} \X (1..Len(storeSrc[K])) : K \in DOMAIN storeSrc }

\* C21: after the processed consumer's first pull cycle, complete and without
\* failure or restart, the store empty before, each of the k valid records of
\* the pull has exactly one row in the store and the store has k rows.
C21_OneRowPerRecord ==
    (kind = "processed" /\ FirstCycleComplete)
        => /\ \A i \in 1..Len(ValidSrc(Len(output))) :
                 Cardinality(RowsFrom(ValidSrc(Len(output))[i])) = 1
           /\ Cardinality(AllRows) = Len(ValidSrc(Len(output)))

\* C22: a constructed consumer starts at LATEST: its cursor never stands
\* before the end the shard had when it was opened, no record published
\* before that is filtered, transformed or batched by it, and no sink write it
\* makes puts a row of such a record into an object.
C22_RestartSkipsBacklog ==
    /\ [](/\ shard_iterator.pos >= openedAt
          /\ \A i \in 1..Len(output) :
                i < idx => output[i].SequenceNumber > openedAt
          /\ \A i \in 1..Len(batchSrc) : batchSrc[i] > openedAt
          /\ \A sn \in processCalls : sn > openedAt)
    /\ [][instance' = instance =>
            \A K \in DOMAIN storeSrc' :
               LET kept == IF K \notin DOMAIN storeSrc THEN 0
                           ELSE IF storeSrc'[K] = storeSrc[K] THEN Len(storeSrc[K])
                           ELSE IF kind = "processed" THEN Len(storeSrc[K])
                           ELSE 0
               IN  \A a \in (kept + 1)..Len(storeSrc'[K]) : storeSrc'[K][a] > openedAt]_vars

\* the previous instance ended without a successful pull, leaving a record
\* on the shard; the restarted instance has pulled and written a later one
C22_Witness ==
    /\ instance = 2
    /\ openedAt >= 1
    /\ nextIterator = 3
    /\ Cardinality(usedIds) = 1
    /\ pulled # {}
    /\ sendsThisPull >= 1
    /\ pc = "filter"
    /\ storeSrc # <<>>

\* C23: a get_records call that is not the first of its instance follows a
\* sleep of sleep_period taken since the call before it; and that sleep
\* starts only when every record of the pull has been through the filter and
\* every send_records call of the pull has returned.
C23_SleepBetweenPulls ==
    [][ /\ (pc = "get_records" /\ pc' \in {"filter", "dead"} /\ lastOutcome # "none")
            => /\ lastOutcome = "ok"
               /\ lastSleep = SLEEP_PERIOD
        /\ (pc = "filter" /\ pc' = "get_records")
            => /\ ~Unfiltered
               /\ sendsThisPull = Len(ValidSrc(Len(output)))
               /\ now' = now + SLEEP_PERIOD ]_vars

\* the second get_records call of an instance has returned records, after a
\* first pull with a sink write
C23_Witness ==
    /\ Cardinality(usedIds) = 2
    /\ lastOutcome = "ok"
    /\ pc = "filter"
    /\ Len(output) >= 1
    /\ store # <<>>
    /\ now >= SLEEP_PERIOD

\* the two consumers of the stream
BothConsumers == {Locals, other}

\* C24: each of the two consumers has received, in publish order and without
\* a gap, the records from where its own cursor was opened up to where its
\* cursor stands, and goes on receiving: its run has not ended unless its own
\* sink failed.
C24_ConsumersIndependent ==
    \A c \in BothConsumers :
       /\ c.pulled = (c.openedAt + 1)..c.shard_iterator.pos
       /\ c.pc = "dead" => c.error = "S3ResponseError"

\* the send_record calls for key K that have returned
Completed(K) == Len(SelectSeq(written, LAMBDA r : KeyPath(r) = K))

\* no two writers have called send_record for the same key
SingleWriterPerKey ==
    \A w1, w2 \in DOMAIN writer :
       w1 # w2 => writer[w1].keys \cap writer[w2].keys = {}

\* a row whose send_record call returned is missing from its object
LostUpdate == \E K \in DOMAIN store : Len(store[K]) < Completed(K)

\* C25: with a single writer per key every write to an object keeps its
\* previous content as a prefix and adds the row, and every object holds one
\* row for each send_record call that returned, in the order they returned;
\* rows are lost only when two writers run send_record on one key.
C25_LostUpdateNeedsTwoWriters ==
    /\ [](SingleWriterPerKey =>
            \A K \in DOMAIN store :
               store[K] = Rows(SelectSeq(written, LAMBDA r : KeyPath(r) = K)))
    /\ [][SingleWriterPerKey' =>
            \A K \in DOMAIN store :
               \/ store'[K] = store[K]
               \/ /\ Len(store'[K]) = Len(store[K]) + 1
                  /\ SubSeq(store'[K], 1, Len(store[K])) = store[K]]_vars

\* two writers on one key, both calls returned, and the object holds fewer
\* rows than calls returned: a row written by one of them is gone
C25_Witness ==
    /\ ~SingleWriterPerKey
    /\ \A w \in DOMAIN writer : writer[w].pc = "idle"
    /\ LostUpdate

\* C26: a send_records call of the archival consumer that returns has written
\* to a key that no earlier archival write had created.
C26_ArchiveKeysUnique ==
    [][(kind = "raw" /\ pc = "send_records" /\ pc' = "filter")
          => RawKey(now) \notin DOMAIN store]_vars

\* the last get_records call returned, and none of its records is well-formed
NoValidRecordPulled ==
    /\ lastOutcome = "ok"
    /\ \A i \in 1..Len(output) : Malformed(output[i].Data)

\* C27: a pull without a record that passes the filter makes no send_records
\* call, moves the cursor to the iterator get_records returned, past the
\* records pulled, and ends in the sleep of sleep_period, not in the end of
\* run().
C27_FruitlessPull ==
    NoValidRecordPulled
        => /\ sendsThisPull = 0
           /\ shard_iterator.id # usedIterator.id
           /\ shard_iterator.pos = usedIterator.pos + Len(output)
           /\ pc # "dead"
           /\ pc = "get_records" => lastSleep = SLEEP_PERIOD
====
